---- MODULE Spec2Model ----
(***************************************************************************)
(* A model of src/src/App.tsx (PDF Image Adder, multi-overlay App, lines   *)
(* 1-588; the load and render effects of the single-overlay App at lines   *)
(* 647-748 are line-for-line the same code).                               *)
(*                                                                         *)
(* React state is the VARIABLES.  One action is one event handler or one   *)
(* continuation of an async function (the code between two awaits),        *)
(* together with the effects React runs for the state it commits: state    *)
(* updates made in one handler or continuation are committed together      *)
(* (React batches them), and an effect whose dependency changed runs its   *)
(* cleanup and its body with that commit.                                  *)
(*                                                                         *)
(* JavaScript numbers are modelled as exact fractions [n, d]; d = 0 stands *)
(* for the non-finite values (n = 1: Infinity, n = -1: -Infinity, n = 0:   *)
(* NaN), so that a division by a zero scale is what it is in the code.     *)
(***************************************************************************)
EXTENDS Integers, Sequences, FiniteSets, TLC

\* ------------------------------------------------------------------------
\* Numbers
\* ------------------------------------------------------------------------
Abs(k) == IF k < 0 THEN -k ELSE k

Sign(k) == IF k < 0 THEN -1 ELSE IF k > 0 THEN 1 ELSE 0

RECURSIVE Gcd(_, _)
Gcd(a, b) == IF b = 0 THEN a ELSE Gcd(b, a % b)

\* The canonical form of the fraction n/d.
Norm(n, d) ==
  IF d = 0 THEN [n |-> Sign(n), d |-> 0]
  ELSE LET g == Gcd(Abs(n), Abs(d))
           s == Sign(d)
       IN [n |-> (s * n) \div g, d |-> (s * d) \div g]

Num(k) == [n |-> k, d |-> 1]

IsFinite(a) == a.d # 0

IsNaN(a) == a.d = 0 /\ a.n = 0

\* a / b
Div(a, b) == Norm(a.n * b.d, a.d * b.n)

\* a * b
Mul(a, b) == Norm(a.n * b.n, a.d * b.d)

\* a - b
Sub(a, b) ==
  IF IsFinite(a) /\ IsFinite(b) THEN Norm(a.n * b.d - b.n * a.d, a.d * b.d)
  ELSE IF IsNaN(a) \/ IsNaN(b) THEN [n |-> 0, d |-> 0]
  ELSE IF ~IsFinite(a) /\ ~IsFinite(b)
       THEN (IF a.n = b.n THEN [n |-> 0, d |-> 0] ELSE a)
  ELSE IF ~IsFinite(a) THEN a
  ELSE [n |-> -b.n, d |-> 0]

\* a <= b, for numbers that are not NaN
Leq(a, b) ==
  IF IsFinite(a) /\ IsFinite(b) THEN a.n * b.d <= b.n * a.d
  ELSE IF ~IsFinite(a) THEN (a.n < 0 \/ a = b)
  ELSE b.n > 0

\* Math.min(a, b)
MathMin(a, b) ==
  IF IsNaN(a) \/ IsNaN(b) THEN [n |-> 0, d |-> 0]
  ELSE IF Leq(a, b) THEN a ELSE b

\* ------------------------------------------------------------------------
\* The files the user can offer, and what the collaborators make of them
\* ------------------------------------------------------------------------
NoFile == "none"

\* File.type, as <<type, subtype>>
FileType(f) ==
  CASE f \in {"A.pdf", "B.pdf", "bad.pdf"} -> <<"application", "pdf">>
    [] f \in {"logo.png", "broken.png"}    -> <<"image", "png">>
    [] f = "photo.jpg"                     -> <<"image", "jpeg">>
    [] f = "anim.gif"                      -> <<"image", "gif">>
    [] OTHER                               -> <<"text", "plain">>

\* Documents whose bytes the document loader (pdf.js) and the document
\* writer (pdf-lib) can parse.
Parses(f) == f \in {"A.pdf", "B.pdf"}

\* doc.numPages / pdfDoc.getPages().length
PageCount(f) == IF f = "A.pdf" THEN 2 ELSE IF f = "B.pdf" THEN 1 ELSE 0

\* page.getViewport({ scale: 1 }) / page.getHeight(): the native page size
NativeSize(f, p) ==
  IF f = "A.pdf" /\ p = 1 THEN [width |-> Num(612), height |-> Num(792)]
  ELSE IF f = "A.pdf" THEN [width |-> Num(792), height |-> Num(612)]
  ELSE [width |-> Num(400), height |-> Num(400)]

\* Image bytes that an image decoder accepts (embedPng/embedJpg, img.onload).
Decodable(f) == f \in {"logo.png", "photo.jpg", "anim.gif"}

\* ------------------------------------------------------------------------
\* State
\* ------------------------------------------------------------------------
VARIABLES
  pdfFile,            \* useState<File | null>: the selected document file
  overlayImages,      \* useState<OverlayImage[]>: the placements, in order
  pdfDocProxy,        \* the loaded document handle (named by its file)
  currentPage,        \* 1-based active page
  numPages,           \* page count of the loaded document
  pageDimensions,     \* displayed page size
  renderScale,        \* display scale
  originalDimensions, \* native page size
  isExporting,        \* busy flag
  exportFormat,       \* "pdf" | "jpg" | "png"
  container,          \* <<clientWidth, clientHeight>> of containerRef
  canvas,             \* the visible canvas element behind canvasRef
  loads,              \* load-effect instances whose loadPdf() is pending
  renders,            \* render-effect instances whose renderPage() is pending
  exports,            \* handleExport() invocations that have not returned
  alerted,            \* the alert() the last step showed, if any
  delivered,          \* the artifact the last step handed to link.click()
  urlCount            \* how many object URLs URL.createObjectURL has made

viewVars == <<pageDimensions, renderScale, originalDimensions>>

docVars == <<pdfFile, pdfDocProxy, currentPage, numPages>>

vars == <<pdfFile, overlayImages, pdfDocProxy, currentPage, numPages,
          pageDimensions, renderScale, originalDimensions, isExporting,
          exportFormat, container, canvas, loads, renders, exports,
          alerted, delivered, urlCount>>

Blank == <<>>

\* No canvas element is mounted (the canvas is rendered only with a pdfFile).
NoCanvas == [exists |-> FALSE, width |-> 0, height |-> 0, shown |-> Blank]

\* A new canvas element: 300 x 150, transparent.
FreshCanvas == [exists |-> TRUE, width |-> 300, height |-> 150, shown |-> Blank]

\* The step shows no alert / hands nothing to the download step.
NoAlert == alerted' = "none"

NoDownload == [name |-> <<>>, source |-> NoFile, page |-> 0, draws |-> <<>>]

NoDelivery == delivered' = NoDownload

Init ==
  /\ pdfFile = NoFile
  /\ overlayImages = <<>>
  /\ pdfDocProxy = NoFile
  /\ currentPage = 1
  /\ numPages = 0
  /\ pageDimensions = [width |-> Num(0), height |-> Num(0)]
  /\ renderScale = Num(1)
  /\ originalDimensions = [width |-> Num(0), height |-> Num(0)]
  /\ isExporting = FALSE
  /\ exportFormat = "pdf"
  /\ container = <<800, 600>>
  /\ canvas = NoCanvas
  /\ loads = {}
  /\ renders = {}
  /\ exports = <<>>
  /\ alerted = "none"
  /\ delivered = NoDownload
  /\ urlCount = 0

\* ------------------------------------------------------------------------
\* Load PDF Document (the effect on [pdfFile])
\* ------------------------------------------------------------------------
\* The cleanup of the load effect: isMounted = false.
UnmountLoads(ls) == {[l EXCEPT !.isMounted = FALSE] : l \in ls}

\* The cleanup of the render effect: isMounted = false, and renderTask.cancel()
\* when the instance has started its render task (a cancelled task rejects
\* with RenderingCancelledException, which renderPage swallows).
CleanupRenders(rs) ==
  {[r EXCEPT !.isMounted = FALSE] :
     r \in {q \in rs : ~(q.isMounted /\ q.pc = "render")}}

\* The render effect runs anew for (doc, page): the previous instance is
\* cleaned up, and renderPage() starts unless a ref or the document is null.
StartRender(doc, page, cv, rs) ==
  CleanupRenders(rs) \cup
    (IF doc # NoFile /\ cv.exists
     THEN {[doc |-> doc, page |-> page, isMounted |-> TRUE, pc |-> "getPage"]}
     ELSE {})

\* setPdfFile(f) with the load effect it triggers; the canvas element is
\* mounted with the first pdfFile.
SetPdfFile(f) ==
  /\ pdfFile' = f
  /\ loads' = UnmountLoads(loads) \cup {[file |-> f, isMounted |-> TRUE]}
  /\ canvas' = IF canvas.exists THEN canvas ELSE FreshCanvas

IsPdf(f) == FileType(f) = <<"application", "pdf">>

\* handlePdfUpload(file), from the file picker
handlePdfUpload(f) ==
  /\ IF IsPdf(f)
     THEN SetPdfFile(f) /\ NoAlert
     ELSE /\ alerted' = "Please select a valid PDF file."
          /\ UNCHANGED <<pdfFile, loads, canvas>>
  /\ UNCHANGED <<overlayImages, pdfDocProxy, currentPage, numPages, viewVars,
                 isExporting, exportFormat, container, renders, exports,
                 urlCount>>
  /\ NoDelivery

\* The Remove PDF button: setPdfFile(null); the load effect then clears the
\* document handle, and the canvas element is unmounted.  Render tasks
\* still drawing keep the detached element and no longer show.
RemovePdf ==
  /\ pdfFile # NoFile
  /\ pdfFile' = NoFile
  /\ loads' = UnmountLoads(loads)
  /\ pdfDocProxy' = NoFile
  /\ numPages' = 0
  /\ currentPage' = 1
  /\ canvas' = NoCanvas
  /\ renders' = {r \in CleanupRenders(renders) : r.pc = "getPage"}
  /\ UNCHANGED <<overlayImages, viewVars, isExporting, exportFormat,
                 container, exports, urlCount>>
  /\ NoAlert
  /\ NoDelivery

\* loadPdf() without setCurrentPage(1).
CommitLoadKeepPage(l) ==
  /\ pdfDocProxy' = l.file
  /\ numPages' = PageCount(l.file)
  /\ currentPage' = currentPage
  /\ renders' = StartRender(l.file, currentPage, canvas, renders)

\* What loadPdf() commits when getDocument resolves and the effect is still
\* mounted: the handle, the page count and page 1, together.
CommitLoad(l) ==
  /\ pdfDocProxy' = l.file
  /\ numPages' = PageCount(l.file)
  /\ currentPage' = 1
  /\ renders' = StartRender(l.file, 1, canvas, renders)

\* loadPdf() without if (isMounted).
LoadResolvedUnguarded(l) ==
  /\ l \in loads
  /\ Parses(l.file)
  /\ loads' = loads \ {l}
  /\ CommitLoad(l)
  /\ UNCHANGED <<pdfFile, overlayImages, viewVars, isExporting, exportFormat,
                 container, canvas, exports, urlCount>>
  /\ NoAlert
  /\ NoDelivery

\* loadPdf(): getDocument(...).promise resolves
LoadResolved(l) ==
  /\ l \in loads
  /\ Parses(l.file)
  /\ loads' = loads \ {l}
  /\ IF l.isMounted
     THEN CommitLoad(l)
     ELSE UNCHANGED <<pdfDocProxy, numPages, currentPage, renders>>
  /\ UNCHANGED <<pdfFile, overlayImages, viewVars, isExporting, exportFormat,
                 container, canvas, exports, urlCount>>
  /\ NoAlert
  /\ NoDelivery

\* What the catch block of loadPdf() does.
LoadFailure ==
  /\ alerted' = "Failed to load PDF file."
  /\ UNCHANGED <<pdfFile, pdfDocProxy, numPages, currentPage, renders, canvas>>

\* loadPdf(): getDocument(...).promise rejects
LoadFailed(l) ==
  /\ l \in loads
  /\ ~Parses(l.file)
  /\ loads' = loads \ {l}
  /\ LoadFailure
  /\ UNCHANGED <<overlayImages, viewVars, isExporting, exportFormat,
                 container, exports, urlCount>>
  /\ NoDelivery

\* ------------------------------------------------------------------------
\* Page navigation
\* ------------------------------------------------------------------------
Max(a, b) == IF a >= b THEN a ELSE b

Min(a, b) == IF a <= b THEN a ELSE b

\* setCurrentPage(p) with the render effect it triggers when the page changes.
SetCurrentPage(p) ==
  /\ currentPage' = p
  /\ renders' = IF p = currentPage THEN renders
                ELSE StartRender(pdfDocProxy, p, canvas, renders)
  /\ UNCHANGED <<pdfFile, overlayImages, pdfDocProxy, numPages, viewVars,
                 isExporting, exportFormat, container, canvas, loads, exports,
                 urlCount>>
  /\ NoAlert
  /\ NoDelivery

PrevTarget(p) == Max(1, p - 1)

NextTarget(p) == Min(numPages, p + 1)

\* The previous-page button (shown when numPages > 0, disabled on page 1)
PrevPage ==
  /\ numPages > 0
  /\ ~(currentPage <= 1)
  /\ SetCurrentPage(PrevTarget(currentPage))

\* The next-page button (disabled on the last page)
NextPage ==
  /\ numPages > 0
  /\ ~(currentPage >= numPages)
  /\ SetCurrentPage(NextTarget(currentPage))

\* ------------------------------------------------------------------------
\* Render PDF Page (the effect on [pdfDocProxy, currentPage])
\* ------------------------------------------------------------------------
padding == 40

\* containerRef.current?.clientWidth || 800, and the height || 600
ClientWidth(c) == IF c[1] = 0 THEN 800 ELSE c[1]

ClientHeight(c) == IF c[2] = 0 THEN 600 ELSE c[2]

\* scale = Math.min(availableWidth / width, availableHeight / height)
ComputeScale(c, original) ==
  MathMin(Div(Num(ClientWidth(c) - padding), original.width),
          Div(Num(ClientHeight(c) - padding), original.height))

\* page.getViewport({ scale }): the native size times the scale
Viewport(original, scale) ==
  [width |-> Mul(original.width, scale), height |-> Mul(original.height, scale)]

\* Assigning a number to canvas.width / canvas.height (an unsigned long):
\* the integer part, and 0 for a non-finite value.  The container sizes of
\* the model give no negative scale.
ToCanvasLen(a) == IF IsFinite(a) /\ a.n >= 0 THEN a.n \div a.d ELSE 0

\* renderPage() without setOriginalDimensions.
CommitViewNoOriginal(r, original, scale, viewport) ==
  IF r.isMounted
  THEN /\ originalDimensions' = originalDimensions
       /\ renderScale' = scale
       /\ pageDimensions' = viewport
  ELSE UNCHANGED viewVars

\* The three view-state updates of renderPage(), each under if (isMounted);
\* nothing is awaited between them, so they are committed together.
CommitView(r, original, scale, viewport) ==
  IF r.isMounted
  THEN /\ originalDimensions' = original
       /\ renderScale' = scale
       /\ pageDimensions' = viewport
  ELSE UNCHANGED viewVars

\* pdf.js refuses a second render() on a canvas that a running task uses.
CanvasInUse(rs) == \E t \in rs : t.pc = "render"

\* canvas.height = ...; canvas.width = ...; renderTask = page.render(...):
\* not under if (isMounted).  Setting the size clears the bitmap.
WriteCanvasAndRender(r, viewport) ==
  IF ~canvas.exists
  THEN /\ renders' = renders \ {r}
       /\ UNCHANGED canvas
  ELSE /\ canvas' = [exists |-> TRUE,
                     width |-> ToCanvasLen(viewport.width),
                     height |-> ToCanvasLen(viewport.height),
                     shown |-> Blank]
       /\ renders' = IF CanvasInUse(renders)
                     THEN renders \ {r}
                     ELSE (renders \ {r}) \cup {[r EXCEPT !.pc = "render"]}

\* renderPage(): pdfDocProxy.getPage(currentPage) resolves
RenderPageFetched(r) ==
  /\ r \in renders
  /\ r.pc = "getPage"
  /\ r.page \in 1..PageCount(r.doc)
  /\ LET original == NativeSize(r.doc, r.page)
         scale == ComputeScale(container, original)
         viewport == Viewport(original, scale)
     IN /\ CommitView(r, original, scale, viewport)
        /\ WriteCanvasAndRender(r, viewport)
  /\ UNCHANGED <<pdfFile, overlayImages, pdfDocProxy, currentPage, numPages,
                 isExporting, exportFormat, container, loads, exports,
                 urlCount>>
  /\ NoAlert
  /\ NoDelivery

\* renderPage(): getPage rejects (page out of range); the error is logged
RenderPageRejected(r) ==
  /\ r \in renders
  /\ r.pc = "getPage"
  /\ r.page \notin 1..PageCount(r.doc)
  /\ renders' = renders \ {r}
  /\ UNCHANGED <<pdfFile, overlayImages, pdfDocProxy, currentPage, numPages,
                 viewVars, isExporting, exportFormat, container, canvas,
                 loads, exports, urlCount>>
  /\ NoAlert
  /\ NoDelivery

\* renderPage(): renderTask.promise resolves, the page is on the canvas
RenderCompleted(r) ==
  /\ r \in renders
  /\ r.pc = "render"
  /\ renders' = renders \ {r}
  /\ canvas' = IF canvas.exists
               THEN [canvas EXCEPT !.shown = <<r.doc, r.page>>]
               ELSE canvas
  /\ UNCHANGED <<pdfFile, overlayImages, pdfDocProxy, currentPage, numPages,
                 viewVars, isExporting, exportFormat, container, loads,
                 exports, urlCount>>
  /\ NoAlert
  /\ NoDelivery

\* The browser window is resized: the container's client size changes.
\* No handler of the program listens.
Resize(c) ==
  /\ c # container
  /\ container' = c
  /\ UNCHANGED <<pdfFile, overlayImages, pdfDocProxy, currentPage, numPages,
                 viewVars, isExporting, exportFormat, canvas, loads, renders,
                 exports, urlCount>>
  /\ NoAlert
  /\ NoDelivery

\* ------------------------------------------------------------------------
\* Overlay images (the placement store)
\* ------------------------------------------------------------------------
\* file.type.startsWith('image/')
StartsWithImage(f) == FileType(f)[1] = "image"

\* The rectangle of the k-th image accepted in one upload (k counts from 0).
InitialPos(k) ==
  [x |-> 50 + k * 20, y |-> 50 + k * 20, width |-> 150, height |-> 150]

\* The forEach of handleImageUpload: newImages for `files`, with ids[i] the
\* value Math.random() gives for the i-th file and URL.createObjectURL
\* numbering its URLs from `urls` + 1.
RECURSIVE BuildImages(_, _, _, _)
BuildImages(files, ids, urls, newImages) ==
  IF files = <<>> THEN newImages
  ELSE IF StartsWithImage(Head(files))
  THEN BuildImages(Tail(files), Tail(ids), urls + 1,
         Append(newImages, [id |-> Head(ids),
                            file |-> Head(files),
                            previewUrl |-> urls + 1,
                            pos |-> InitialPos(Len(newImages))]))
  ELSE BuildImages(Tail(files), Tail(ids), urls, newImages)

\* A store that puts new placements first.
PrependImages(prev, newImages) == newImages \o prev

\* setOverlayImages(prev => [...prev, ...newImages])
AppendImages(prev, newImages) == prev \o newImages

\* handleImageUpload(files), as far as the store and the alert go
ImageUpload(files, ids) ==
  LET newImages == BuildImages(files, ids, urlCount, <<>>)
  IN /\ urlCount' = urlCount + Len(newImages)
     /\ IF Len(newImages) > 0
        THEN /\ overlayImages' = AppendImages(overlayImages, newImages)
             /\ NoAlert
        ELSE /\ alerted' = "Please select valid image files."
             /\ UNCHANGED overlayImages

\* handleImageUpload(files), from the image file picker
handleImageUpload(files, ids) ==
  /\ ImageUpload(files, ids)
  /\ UNCHANGED <<docVars, viewVars, isExporting, exportFormat, container,
                 canvas, loads, renders, exports>>
  /\ NoDelivery

\* handleDrop: the first PDF among the files goes to handlePdfUpload, the
\* files whose type starts with image/ go to handleImageUpload.
handleDrop(files, ids) ==
  LET pdfs == SelectSeq(files, IsPdf)
      imageFiles == SelectSeq(files, StartsWithImage)
  IN /\ files # <<>>
     /\ IF pdfs # <<>>
        THEN SetPdfFile(Head(pdfs))
        ELSE UNCHANGED <<pdfFile, loads, canvas>>
     /\ IF imageFiles # <<>>
        THEN ImageUpload(imageFiles, ids)
        ELSE NoAlert /\ UNCHANGED <<overlayImages, urlCount>>
     /\ UNCHANGED <<pdfDocProxy, currentPage, numPages, viewVars, isExporting,
                    exportFormat, container, renders, exports>>
     /\ NoDelivery

\* prev.filter(img => img.id !== id)
RECURSIVE WithoutId(_, _)
WithoutId(images, id) ==
  IF images = <<>> THEN <<>>
  ELSE IF Head(images).id # id
  THEN <<Head(images)>> \o WithoutId(Tail(images), id)
  ELSE WithoutId(Tail(images), id)

\* removeImage(id)
removeImage(id) ==
  /\ overlayImages' = WithoutId(overlayImages, id)
  /\ UNCHANGED <<docVars, viewVars, isExporting, exportFormat, container,
                 canvas, loads, renders, exports, urlCount>>
  /\ NoAlert
  /\ NoDelivery

\* { ...img.pos, ...newPos }
MergePos(pos, newPos) ==
  [f \in DOMAIN pos |-> IF f \in DOMAIN newPos THEN newPos[f] ELSE pos[f]]

\* A map that gives every placement the new position.
WithNewPosAll(images, id, newPos) ==
  [i \in 1..Len(images) |->
     [images[i] EXCEPT !.pos = MergePos(images[i].pos, newPos)]]

\* prev.map(img => img.id === id ? { ...img, pos: {...} } : img)
WithNewPos(images, id, newPos) ==
  [i \in 1..Len(images) |->
     IF images[i].id = id
     THEN [images[i] EXCEPT !.pos = MergePos(images[i].pos, newPos)]
     ELSE images[i]]

\* updateImagePos(id, newPos)
updateImagePos(id, newPos) ==
  /\ overlayImages' = WithNewPos(overlayImages, id, newPos)
  /\ UNCHANGED <<docVars, viewVars, isExporting, exportFormat, container,
                 canvas, loads, renders, exports, urlCount>>
  /\ NoAlert
  /\ NoDelivery

\* The ids of the placements: each has a Remove button in the sidebar and,
\* while a pdfFile is selected, an Rnd box on the page.
ShownIds == {overlayImages[i].id : i \in 1..Len(overlayImages)}

\* The Remove Image button of a placement
RemoveImage == \E id \in ShownIds : removeImage(id)

\* Rnd onDragStop of a placement: updateImagePos(img.id, { x: d.x, y: d.y })
DragStop(points) ==
  \E id \in ShownIds : \E d \in points :
    /\ pdfFile # NoFile
    /\ updateImagePos(id, [x |-> d[1], y |-> d[2]])

\* Rnd onResizeStop of a placement: the new width, height and position
ResizeStop(boxes) ==
  \E id \in ShownIds : \E b \in boxes :
    /\ pdfFile # NoFile
    /\ updateImagePos(id, b)

\* ------------------------------------------------------------------------
\* Export
\* ------------------------------------------------------------------------
targetDPI == 300

\* exportScale = targetDPI / 72
exportScale == Div(Num(targetDPI), Num(72))

\* A conversion that keeps the top-left origin.
ToDocumentSpaceNoFlip(pos, scale, pageHeight) ==
  [x |-> Div(Num(pos.x), scale), y |-> Div(Num(pos.y), scale),
   width |-> Div(Num(pos.width), scale),
   height |-> Div(Num(pos.height), scale)]

\* DOCUMENT branch: display rectangle to document space (origin bottom-left)
ToDocumentSpace(pos, scale, pageHeight) ==
  LET originalWidth == Div(Num(pos.width), scale)
      originalHeight == Div(Num(pos.height), scale)
      originalX == Div(Num(pos.x), scale)
      originalY == Div(Num(pos.y), scale)
      pdfY == Sub(Sub(pageHeight, originalY), originalHeight)
  IN [x |-> originalX, y |-> pdfY,
      width |-> originalWidth, height |-> originalHeight]

\* A conversion that takes the display rectangle for the page rectangle.
ToRasterSpaceNoScale(pos, scale, rasterScale) ==
  [x |-> Mul(Num(pos.x), rasterScale), y |-> Mul(Num(pos.y), rasterScale),
   width |-> Mul(Num(pos.width), rasterScale),
   height |-> Mul(Num(pos.height), rasterScale)]

\* RASTER branch: display rectangle to the 300 DPI export canvas
ToRasterSpace(pos, scale, rasterScale) ==
  LET scaledWidth == Mul(Div(Num(pos.width), scale), rasterScale)
      scaledHeight == Mul(Div(Num(pos.height), scale), rasterScale)
      scaledX == Mul(Div(Num(pos.x), scale), rasterScale)
      scaledY == Mul(Div(Num(pos.y), scale), rasterScale)
  IN [x |-> scaledX, y |-> scaledY,
      width |-> scaledWidth, height |-> scaledHeight]

\* An export button that stays enabled while an export runs.
ExportDisabledNoBusy == pdfFile = NoFile

\* The export button: disabled={!pdfFile || isExporting}
ExportDisabled == pdfFile = NoFile \/ isExporting

\* What a handleExport() invocation closes over, and where it stands:
\* pc "start" before the document is parsed / the page rendered, then
\* "overlays" with i the next overlay of the loop.
NewExport ==
  [format |-> exportFormat, file |-> pdfFile, doc |-> pdfDocProxy,
   page |-> currentPage, images |-> overlayImages, scale |-> renderScale,
   pc |-> "start", i |-> 1, draws |-> <<>>]

\* handleExport(): up to the first await
handleExport ==
  /\ ~ExportDisabled
  /\ IF pdfFile = NoFile \/ ~canvas.exists
     THEN UNCHANGED <<isExporting, exports>>
     ELSE /\ isExporting' = TRUE
          /\ exports' = Append(exports, NewExport)
  /\ UNCHANGED <<docVars, overlayImages, viewVars, exportFormat, container,
                 canvas, loads, renders, urlCount>>
  /\ NoAlert
  /\ NoDelivery

\* The format toggle
setExportFormat(fmt) ==
  /\ exportFormat' = fmt
  /\ UNCHANGED <<docVars, overlayImages, viewVars, isExporting, container,
                 canvas, loads, renders, exports, urlCount>>
  /\ NoAlert
  /\ NoDelivery

RemoveAt(seq, k) == SubSeq(seq, 1, k - 1) \o SubSeq(seq, k + 1, Len(seq))

\* The downloaded artifact: its name (modified_<name> or
\* <baseName>_page<N>.<format>), the document whose page it shows, the page
\* and the overlays drawn on it, in drawing order.
Artifact(e) ==
  [name |-> IF e.format = "pdf" THEN <<"modified", e.file>>
            ELSE <<e.file, e.page, e.format>>,
   source |-> IF e.format = "pdf" THEN e.file ELSE e.doc,
   page |-> e.page,
   draws |-> e.draws]

\* A catch that hands what was composed so far to the download step.
ExportFailurePartial(k) ==
  /\ alerted' = "Failed to export."
  /\ isExporting' = FALSE
  /\ exports' = RemoveAt(exports, k)
  /\ delivered' = Artifact(exports[k])

\* catch: alert('Failed to export. ' + message); finally: setIsExporting(false)
ExportFailure(k) ==
  /\ alerted' = "Failed to export."
  /\ isExporting' = FALSE
  /\ exports' = RemoveAt(exports, k)
  /\ NoDelivery

\* link.click() on the finished artifact; finally: setIsExporting(false)
ExportDelivery(k, artifact) ==
  /\ delivered' = artifact
  /\ isExporting' = FALSE
  /\ exports' = RemoveAt(exports, k)
  /\ NoAlert

\* The export goes on to its next await.
ExportProgress(k, e) ==
  /\ exports' = [exports EXCEPT ![k] = e]
  /\ UNCHANGED isExporting
  /\ NoAlert
  /\ NoDelivery

\* embedPng / embedJpg by file type; any other type throws
CanEmbed(f) ==
  /\ FileType(f) \in {<<"image", "png">>, <<"image", "jpeg">>, <<"image", "jpg">>}
  /\ Decodable(f)

\* Whether the step that export e takes next throws.
StepThrows(e) ==
  IF e.format = "pdf"
  THEN \/ e.pc = "start" /\ ~Parses(e.file)
       \/ /\ e.pc = "overlays"
          /\ e.i <= Len(e.images)
          /\ \/ ~CanEmbed(e.images[e.i].file)
             \/ e.page \notin 1..PageCount(e.file)
  ELSE /\ e.pc = "start"
       /\ (e.doc = NoFile \/ e.page \notin 1..PageCount(e.doc))

\* Whether export e waits for an event that never comes: img.onload of an
\* image that does not decode (no onerror handler is set).
WaitsForever(e) ==
  /\ e.format # "pdf"
  /\ e.pc = "overlays"
  /\ e.i <= Len(e.images)
  /\ ~Decodable(e.images[e.i].file)

\* The draw of overlay e.i: page.drawImage / ctx.drawImage
DrawOverlay(e) ==
  LET img == e.images[e.i]
  IN [img |-> img,
      rect |-> IF e.format = "pdf"
               THEN ToDocumentSpace(img.pos, e.scale,
                                    NativeSize(e.file, e.page).height)
               ELSE ToRasterSpace(img.pos, e.scale, exportScale)]

\* One continuation of handleExport() number k, from one await to the next.
ExportStep(k) ==
  /\ k \in 1..Len(exports)
  /\ LET e == exports[k]
     IN /\ ~WaitsForever(e)
        /\ IF StepThrows(e) THEN ExportFailure(k)
           ELSE IF e.pc = "start"
           THEN ExportProgress(k, [e EXCEPT !.pc = "overlays"])
           ELSE IF e.i <= Len(e.images)
           THEN ExportProgress(k, [e EXCEPT !.i = e.i + 1,
                                            !.draws = Append(e.draws, DrawOverlay(e))])
           ELSE ExportDelivery(k, Artifact(e))
  /\ UNCHANGED <<docVars, overlayImages, viewVars, exportFormat, container,
                 canvas, loads, renders, urlCount>>

\* ------------------------------------------------------------------------
\* The document and its view: file selection, loading, navigation, rendering
\* ------------------------------------------------------------------------
PdfPickerFiles == {"A.pdf", "B.pdf", "bad.pdf", "notes.txt"}

GoodPdfFiles == {"A.pdf", "B.pdf"}

Containers == {<<800, 600>>, <<1040, 840>>, <<40, 600>>, <<0, 0>>}

\* Bounds on the asynchronous work that is pending at one time.
MaxLoads == 2

MaxRenders == 2

LoadsBelowBound == Cardinality(loads) < MaxLoads

RendersBelowBound == Cardinality(CleanupRenders(renders)) < MaxRenders

PickPdf(files) == LoadsBelowBound /\ \E f \in files : handlePdfUpload(f)

LoadSucceeds ==
  \E l \in loads : (l.isMounted => RendersBelowBound) /\ LoadResolved(l)

LoadFails == \E l \in loads : LoadFailed(l)

GoPrev == RendersBelowBound /\ PrevPage

GoNext == RendersBelowBound /\ NextPage

RenderStep ==
  \E r \in renders :
    RenderPageFetched(r) \/ RenderPageRejected(r) \/ RenderCompleted(r)

WindowResize(sizes) == \E c \in sizes : Resize(c)

\* Documents of every kind in a window of fixed size.
NextDoc ==
  \/ PickPdf(PdfPickerFiles)
  \/ RemovePdf
  \/ LoadSucceeds
  \/ LoadFails
  \/ GoPrev
  \/ GoNext
  \/ RenderStep

SpecDoc == Init /\ [][NextDoc]_vars

\* Well-formed documents in a window that is resized.
NextView ==
  \/ PickPdf(GoodPdfFiles)
  \/ RemovePdf
  \/ LoadSucceeds
  \/ GoPrev
  \/ GoNext
  \/ RenderStep
  \/ WindowResize(Containers)

SpecView == Init /\ [][NextView]_vars

\* ------------------------------------------------------------------------
\* The placement store: uploads, drops, removal, drag and resize
\* ------------------------------------------------------------------------
\* The values Math.random().toString(36).substr(2, 9) can give
NumIds == 2

Ids == 1..NumIds

\* Bounds: object URLs ever made, files per upload, exports not yet returned
MaxUrls == 3

MaxBatch == 2

MaxExports == 2

\* The sequences over `files` of lengths 1..n
Batches(files, n) == UNION {[1..k -> files] : k \in 1..n}

UploadFiles == {"logo.png", "photo.jpg", "anim.gif", "notes.txt"}

DropFiles == {"logo.png", "anim.gif", "A.pdf"}

DragPoints == {<<0, 0>>, <<100, 200>>}

ResizeBoxes == {[width |-> 300, height |-> 300, x |-> 10, y |-> 20]}

PickImages(batches, idValues, max) ==
  \E files \in batches : \E ids \in [1..Len(files) -> idValues] :
    /\ urlCount + Len(files) <= max
    /\ handleImageUpload(files, ids)

Drop(batches) ==
  \E files \in batches : \E ids \in [1..Len(files) -> Ids] :
    /\ urlCount + Len(files) <= MaxUrls
    /\ LoadsBelowBound
    /\ handleDrop(files, ids)

NextStore ==
  \/ PickImages(Batches(UploadFiles, MaxBatch), Ids, MaxUrls)
  \/ Drop(Batches(DropFiles, MaxBatch))
  \/ RemoveImage
  \/ DragStop(DragPoints)
  \/ ResizeStop(ResizeBoxes)

SpecStore == Init /\ [][NextStore]_vars

\* ------------------------------------------------------------------------
\* Export
\* ------------------------------------------------------------------------
ChooseFormat(formats) == \E fmt \in formats : setExportFormat(fmt)

Formats == {"pdf", "jpg", "png"}

ClickExport == Len(exports) < MaxExports /\ handleExport

ExportContinues == \E k \in 1..Len(exports) : ExportStep(k)

\* The first document of a session
OpenPdf(files) == pdfFile = NoFile /\ PickPdf(files)

\* Ids that do not collide: a new value with every object URL made.
FreshIds == {urlCount + 1}

\* The export button while documents are picked, replaced and removed, with
\* at most MaxBusyUrls overlays.
MaxBusyUrls == 1

BusyPdfFiles == {"A.pdf", "bad.pdf"}

BusyImageFiles == {"broken.png"}

NextBusy ==
  \/ PickPdf(BusyPdfFiles)
  \/ RemovePdf
  \/ LoadSucceeds
  \/ LoadFails
  \/ RenderStep
  \/ PickImages(Batches(BusyImageFiles, 1), FreshIds, MaxBusyUrls)
  \/ ChooseFormat({"pdf", "png"})
  \/ ClickExport
  \/ ExportContinues

SpecBusy == Init /\ [][NextBusy]_vars

\* A continuation of handleExport() whose awaited promise has settled runs:
\* the event loop does not starve it.
SpecBusyFair == SpecBusy /\ WF_vars(ExportContinues)

\* No export is under way: the user edits, then exports and waits.
Idle == exports = <<>>

\* One document, up to MaxUrls overlays that are moved and removed between
\* exports, exports in every format.
ExportImageFiles == {"logo.png", "broken.png", "anim.gif"}

ExportDragPoints == {<<100, 200>>}

NextExport ==
  \/ OpenPdf({"A.pdf"})
  \/ LoadSucceeds
  \/ RenderStep
  \/ Idle /\ PickImages(Batches(ExportImageFiles, 1), FreshIds, MaxUrls)
  \/ Idle /\ RemoveImage
  \/ Idle /\ DragStop(ExportDragPoints)
  \/ Idle /\ ChooseFormat(Formats)
  \/ ClickExport
  \/ ExportContinues

SpecExport == Init /\ [][NextExport]_vars

\* No export is under way and the page is rendered.
Settled == Idle /\ renders = {}

\* One overlay on the pages of two documents in a window that is resized:
\* the rectangles an export computes.
MaxTransformUrls == 1

TransformContainers == {<<800, 600>>, <<1040, 840>>, <<40, 600>>}

NextTransform ==
  \/ OpenPdf(GoodPdfFiles)
  \/ LoadSucceeds
  \/ Settled /\ GoPrev
  \/ Settled /\ GoNext
  \/ RenderStep
  \/ Settled /\ WindowResize(TransformContainers)
  \/ Idle /\ PickImages(Batches({"logo.png"}, 1), FreshIds, MaxTransformUrls)
  \/ Idle /\ DragStop(DragPoints)
  \/ Idle /\ ResizeStop(ResizeBoxes)
  \/ Idle /\ ChooseFormat({"pdf", "png"})
  \/ ClickExport
  \/ ExportContinues

SpecTransform == Init /\ [][NextTransform]_vars

\* ------------------------------------------------------------------------
\* Properties of the document and its view
\* ------------------------------------------------------------------------
\* The page the user asked for last.
RequestedPage == <<pdfDocProxy, currentPage>>

\* A step of a render-effect instance that was cleaned up (superseded).
StaleRenderStep ==
  \E r \in renders :
    ~r.isMounted /\ (RenderPageFetched(r) \/ RenderCompleted(r))

\* C1: once no render is pending, the canvas shows the page requested last,
\* and a superseded render request never writes the canvas, neither its
\* size nor its pixels.
C1_LatestRequestWins ==
  /\ [](pdfDocProxy # NoFile /\ renders = {} => canvas.shown = RequestedPage)
  /\ [][StaleRenderStep => canvas' = canvas]_vars

\* C6: when the load of the selected document fails, the error is shown,
\* the document handle is discarded and the editor is empty again.
C6_FailedLoadEmptiesEditor ==
  [][(\E l \in loads : l.isMounted /\ LoadFailed(l)) =>
       /\ alerted' = "Failed to load PDF file."
       /\ pdfFile' = NoFile
       /\ pdfDocProxy' = NoFile
       /\ numPages' = 0]_vars

\* C7: with a document loaded, the active page is within [1, numPages].
C7_PageInRange == numPages > 0 => (1 <= currentPage /\ currentPage <= numPages)

\* C7 witness: the last page of a two-page document, reached by navigation,
\* while a replacement document is selected.
C7_Witness == numPages = 2 /\ currentPage = 2 /\ pdfFile = "B.pdf"

\* a = b * c, for finite numbers
IsProduct(a, b, c) == a.n * b.d * c.d = b.n * c.n * a.d

\* C8: the displayed page size is the native page size times the display
\* scale, in both axes, in every state.
C8_ViewConsistent ==
  /\ IsProduct(pageDimensions.width, originalDimensions.width, renderScale)
  /\ IsProduct(pageDimensions.height, originalDimensions.height, renderScale)

\* C8 witness: the 612 x 792 page rendered after the window was resized to
\* 1040 x 840 (scale 800/792), the second page having been shown before.
C8_Witness ==
  /\ originalDimensions = NativeSize("A.pdf", 1)
  /\ renderScale = Div(Num(800), Num(792))
  /\ pageDimensions.height = Num(800)
  /\ canvas.shown = <<"A.pdf", 2>>

\* ------------------------------------------------------------------------
\* Properties of the placement store
\* ------------------------------------------------------------------------
\* C5: every placement of the store holds a PNG or a JPEG file; a file of
\* any other type, image/gif included, is rejected at intake.
C5_OnlyPngOrJpegStored ==
  \A i \in 1..Len(overlayImages) :
    FileType(overlayImages[i].file) \in {<<"image", "png">>, <<"image", "jpeg">>}

\* ------------------------------------------------------------------------
\* Properties of export
\* ------------------------------------------------------------------------
\* C2: every started export ends: whenever the busy flag is set, it is
\* reset later.
C2_ExportAlwaysEnds == isExporting ~> ~isExporting

\* C3: at most one export is in flight, and the busy flag is set exactly
\* while one is.
C3_SingleExportInFlight ==
  /\ Len(exports) <= 1
  /\ isExporting <=> Len(exports) = 1

\* C3 witness: an export in flight after the user removed the document, the
\* export of a document format having parsed the file already.
C3_Witness ==
  /\ Len(exports) = 1
  /\ exports[1].pc = "overlays"
  /\ exports[1].format = "pdf"
  /\ pdfFile = NoFile

\* A continuation of an export that throws.
FailingExportStep ==
  \E k \in 1..Len(exports) : StepThrows(exports[k]) /\ ExportStep(k)

\* C4: no step of an export changes the source document, the placements,
\* the active page or the view; the step at which an export fails reports
\* the failure and hands nothing to the download step; and what an export
\* in flight started from is still the state of the editor.
C4_FailedExportChangesNothing ==
  /\ [][ExportContinues =>
          UNCHANGED <<pdfFile, pdfDocProxy, numPages, overlayImages,
                      currentPage, viewVars, exportFormat, canvas>>]_vars
  /\ [][FailingExportStep =>
          /\ delivered' = NoDownload
          /\ alerted' = "Failed to export."
          /\ ~isExporting']_vars
  /\ [](\A k \in 1..Len(exports) :
          /\ exports[k].file = pdfFile
          /\ exports[k].images = overlayImages
          /\ exports[k].page = currentPage
          /\ exports[k].format = exportFormat)

\* C4 witness: the export of a document with three placements has just
\* failed at the second, whose file cannot be embedded.
C4_Witness ==
  /\ alerted = "Failed to export."
  /\ delivered = NoDownload
  /\ exportFormat = "pdf"
  /\ pdfFile = "A.pdf"
  /\ ~isExporting
  /\ Len(overlayImages) = 3
  /\ overlayImages[1].file = "logo.png"
  /\ overlayImages[2].file = "broken.png"
  /\ overlayImages[3].file = "logo.png"
  /\ overlayImages[1].pos.x = 100

\* The placements that `draws` drew, in drawing order
Drawn(draws) == [i \in 1..Len(draws) |-> draws[i].img]

\* Each of `images` was added to the store before the next one: object URLs
\* are numbered as they are made, one for each placement added.
InInsertionOrder(images) ==
  \A i, j \in 1..Len(images) :
    i < j => images[i].previewUrl < images[j].previewUrl

IsRaster(format) == format \in {"jpg", "png"}

\* C9: a raster export draws the placements of the store in the order in
\* which they were added, whatever their rectangles: what an export in
\* flight has drawn so far, and what a delivered image shows, is in
\* insertion order, and a delivered image shows every placement there is.
C9_RasterDrawsInInsertionOrder ==
  /\ \A k \in 1..Len(exports) :
       IsRaster(exports[k].format) =>
         /\ InInsertionOrder(Drawn(exports[k].draws))
         /\ Drawn(exports[k].draws) =
              SubSeq(overlayImages, 1, Len(exports[k].draws))
  /\ (delivered # NoDownload /\ IsRaster(delivered.name[Len(delivered.name)])) =>
       /\ InInsertionOrder(Drawn(delivered.draws))
       /\ Drawn(delivered.draws) = overlayImages

\* C9 witness: a delivered PNG of the first and the third placement added,
\* the second removed, the first dragged below and right of the third.
C9_Witness ==
  /\ delivered # NoDownload
  /\ delivered.name[Len(delivered.name)] = "png"
  /\ Len(delivered.draws) = 2
  /\ delivered.draws[1].img.previewUrl = 1
  /\ delivered.draws[2].img.previewUrl = 3
  /\ delivered.draws[1].img.pos.x > delivered.draws[2].img.pos.x
  /\ delivered.draws[1].img.pos.y > delivered.draws[2].img.pos.y

\* q = a / s, for an integer a and a finite s other than 0
IsQuotient(q, a, s) == IsFinite(q) /\ q.n * s.n = a * s.d * q.d

\* y = h - a / s, for an integer a and finite h and s, s other than 0
IsFlipped(y, h, a, s) ==
  IsFinite(y) /\ (h.n * y.d - y.n * h.d) * s.n = a * h.d * y.d * s.d

IsPositive(a) == IsFinite(a) /\ a.n > 0

\* |a - b| <= tolerance
Near(a, b, tolerance) ==
  Leq(Sub(a, b), tolerance) /\ Leq(Sub(b, a), tolerance)

\* The rectangle of the example, in hundredths, and the tolerance of "about"
ExampleRect ==
  [x |-> Norm(7071, 100), y |-> Norm(50916, 100),
   width |-> Norm(21213, 100), height |-> Norm(21213, 100)]

ExampleTolerance == Norm(5, 100)

ExampleScale == MathMin(Div(Num(760), Num(612)), Div(Num(560), Num(792)))

\* The draws of the DOCUMENT branch: those of the exports in flight
DocumentDraws ==
  {<<k, i>> \in (1..Len(exports)) \X (1..MaxUrls) :
     exports[k].format = "pdf" /\ i <= Len(exports[k].draws)}

\* C10: with a display scale s > 0, the rectangle the DOCUMENT branch draws
\* for a placement rectangle r on a page of native height h is x = r.x / s,
\* width = r.width / s, height = r.height / s and
\* y = h - r.y / s - r.height / s; for r = {50, 50, 150, 150},
\* s = min(760/612, 560/792) and h = 792 that is {70.71, 509.16, 212.13,
\* 212.13} to within ExampleTolerance.
C10_DocumentRectangle ==
  \A d \in DocumentDraws :
    LET e == exports[d[1]]
        s == e.scale
        h == NativeSize(e.file, e.page).height
        r == e.draws[d[2]].img.pos
        out == e.draws[d[2]].rect
    IN IsPositive(s) =>
         /\ IsQuotient(out.x, r.x, s)
         /\ IsQuotient(out.width, r.width, s)
         /\ IsQuotient(out.height, r.height, s)
         /\ IsFlipped(out.y, h, r.y + r.height, s)
         /\ (s = ExampleScale /\ h = Num(792) /\ r = InitialPos(0)) =>
              \A f \in {"x", "y", "width", "height"} :
                Near(out[f], ExampleRect[f], ExampleTolerance)

\* C10 witness: the example, a placement at {50, 50, 150, 150} drawn on the
\* 612 x 792 page shown in the 800 x 600 window.
C10_Witness ==
  \E d \in DocumentDraws :
    LET e == exports[d[1]]
    IN /\ e.scale = ExampleScale
       /\ e.file = "A.pdf"
       /\ e.page = 1
       /\ e.draws[d[2]].img.pos = InitialPos(0)
       /\ e.draws[d[2]].rect.y = Norm(35640, 70)

\* ------------------------------------------------------------------------
\* Preview handles
\* ------------------------------------------------------------------------
\* The object URLs of overlay previews that are live: URL.createObjectURL
\* numbers them 1..urlCount, and the program revokes none of them (its one
\* revokeObjectURL call is for the URL of the exported blob).
LiveUrls == 1..urlCount

\* The preview handles of the placements in the store
StoreUrls == {overlayImages[i].previewUrl : i \in 1..Len(overlayImages)}

\* C11: the live preview handles are those of the placements in the store:
\* the handle of a placement is released when the placement is removed.
C11_LiveHandlesAreStoreHandles == LiveUrls = StoreUrls

\* ------------------------------------------------------------------------
\* Export while the document or the page changes
\* ------------------------------------------------------------------------
\* Documents are picked and replaced and pages turned in a window of fixed
\* size, with at most MaxBusyUrls overlays; an export is started at any
\* moment, while loads and renders are pending, and the user then waits.
NextStale ==
  \/ Idle /\ PickPdf(GoodPdfFiles)
  \/ LoadSucceeds
  \/ Idle /\ GoPrev
  \/ Idle /\ GoNext
  \/ RenderStep
  \/ Idle /\ PickImages(Batches({"logo.png"}, 1), FreshIds, MaxBusyUrls)
  \/ Idle /\ ChooseFormat({"pdf", "png"})
  \/ ClickExport
  \/ ExportContinues

SpecStale == Init /\ [][NextStale]_vars

\* The artifact is a document (modified_<name>), not an image.
IsDocument(artifact) ==
  artifact # NoDownload /\ artifact.name[1] = "modified"

\* C12: no document is delivered for an active page beyond the page count
\* of the document that was written, with or without placements.
C12_NoDocumentBeyondPageCount ==
  IsDocument(delivered) => delivered.page <= PageCount(delivered.source)

\* C13: an export of a page of the loaded document uses the display scale
\* computed for that page (the window has one size, so a page has one
\* display scale).
C13_ExportScaleIsOfActivePage ==
  \A k \in 1..Len(exports) :
    LET e == exports[k]
    IN (e.doc = e.file /\ e.page \in 1..PageCount(e.file)) =>
         e.scale = ComputeScale(container, NativeSize(e.file, e.page))

\* ------------------------------------------------------------------------
\* Render requests, the display scale and the placement rectangles
\* ------------------------------------------------------------------------
\* The render requests whose render task is drawing on the canvas
Drawing == {r \in renders : r.pc = "render"}

\* C14: at most one render task draws on the canvas at a time, and none of
\* a request that was superseded: a superseded request has finished, was
\* cancelled or never starts drawing.
C14_NoSupersededRenderDraws ==
  /\ Cardinality(Drawing) <= 1
  /\ \A r \in Drawing : r.isMounted

\* C15: the display scale is a positive number in every state, whatever the
\* size of the container.
C15_DisplayScalePositive == IsPositive(renderScale)

\* Images are added, by the picker and by drops, and nothing is moved or
\* removed: every placement has its initial rectangle, and the list is in
\* the order of addition.
NextIntake ==
  \/ PickImages(Batches(UploadFiles, MaxBatch), Ids, MaxUrls)
  \/ Drop(Batches(DropFiles, MaxBatch))

SpecIntake == Init /\ [][NextIntake]_vars

\* C16: a placement never starts with the rectangle of the placement added
\* just before it, in the same upload or in an earlier one.
C16_InitialRectanglesDiffer ==
  \A i \in 1..(Len(overlayImages) - 1) :
    overlayImages[i + 1].pos # overlayImages[i].pos

\* C17: the Remove PDF button leaves the placement store empty.
C17_RemovePdfEmptiesStore == [][RemovePdf => overlayImages' = <<>>]_vars

\* onDragStop / onResizeStop with the id its Rnd box was rendered with,
\* whether or not a placement still has that id.
UpdateAnyId(points, boxes) ==
  \E id \in Ids :
    \/ \E d \in points : updateImagePos(id, [x |-> d[1], y |-> d[2]])
    \/ \E b \in boxes : updateImagePos(id, b)

\* Placements are added and removed, and updateImagePos is called with
\* every id, known or not.
NextUpdate ==
  \/ PickImages(Batches({"logo.png"}, 1), Ids, MaxUrls)
  \/ RemoveImage
  \/ UpdateAnyId(DragPoints, ResizeBoxes)

SpecUpdate == Init /\ [][NextUpdate]_vars

\* What updateImagePos(id, newPos) may change: in the placements with that
\* id the fields of pos that newPos gives, and nothing else; no alert.
OnlyGivenFieldsChange(id, newPos) ==
  /\ Len(overlayImages') = Len(overlayImages)
  /\ \A i \in 1..Len(overlayImages) :
       LET old == overlayImages[i]
           new == overlayImages'[i]
       IN IF old.id = id
          THEN /\ new.id = old.id
               /\ new.file = old.file
               /\ new.previewUrl = old.previewUrl
               /\ \A f \in DOMAIN newPos : new.pos[f] = newPos[f]
               /\ \A f \in {"x", "y", "width", "height"} \ DOMAIN newPos :
                    new.pos[f] = old.pos[f]
          ELSE new = old
  /\ id \notin ShownIds => overlayImages' = overlayImages
  /\ alerted' = "none"

\* C18: updateImagePos(id, partial) changes only the fields given in
\* partial of the placement with that id; the other placements, the length
\* and the order of the list stay, and with an unknown id the store is
\* unchanged and nothing is reported.
C18_UpdateChangesOnlyGivenFields ==
  [][\A id \in Ids :
       /\ \A d \in DragPoints :
            updateImagePos(id, [x |-> d[1], y |-> d[2]]) =>
              OnlyGivenFieldsChange(id, [x |-> d[1], y |-> d[2]])
       /\ \A b \in ResizeBoxes :
            updateImagePos(id, b) => OnlyGivenFieldsChange(id, b)]_vars

\* C18 witness: of two placements left after a removal, one is where
\* it started and the other was resized and then dragged (the drag kept the
\* new size).
C18_Witness ==
  /\ Len(overlayImages) = 2
  /\ urlCount = 3
  /\ overlayImages[1].id # overlayImages[2].id
  /\ overlayImages[1].pos = InitialPos(0)
  /\ overlayImages[2].pos = [x |-> 100, y |-> 200, width |-> 300, height |-> 300]

\* A document is loaded and shown.
Ready == pdfDocProxy # NoFile /\ numPages > 0

\* A render request for the active page starts with the step.
RenderStarts ==
  \E r \in renders' \ renders :
    r.isMounted /\ r.pc = "getPage" /\ r.page = currentPage'

\* C19: with a document loaded, every page navigation starts a render of
\* the active page, and so does every resize of the container that comes
\* when no render is pending (a pending one has yet to read the size): the
\* display scale and the displayed page size are recomputed for it.
C19_NavigationAndResizeStartRender ==
  /\ [][(Ready /\ pdfDocProxy' = pdfDocProxy /\ currentPage' # currentPage)
          => RenderStarts]_vars
  /\ [][(Ready /\ renders = {} /\ container' # container)
          => RenderStarts]_vars

\* The draws of the RASTER branch: those of the exports in flight
RasterDraws ==
  {<<k, i>> \in (1..Len(exports)) \X (1..MaxUrls) :
     IsRaster(exports[k].format) /\ i <= Len(exports[k].draws)}

\* q = a * t / s, for an integer a and finite s and t, s other than 0
IsScaledBy(q, a, t, s) ==
  IsFinite(q) /\ q.n * s.n * t.d = a * t.n * s.d * q.d

\* The rectangle that covers the same part of the page at twice the display
\* scale
Twice(pos) == [f \in DOMAIN pos |-> 2 * pos[f]]

\* C20: the raster scale is 300/72 whatever the display scale; with a
\* display scale s > 0, each of x, y, width and height of the rectangle the
\* RASTER branch draws is the placement's times rasterScale / s, y like x
\* (no flip); and the same placement relative to the page, shown at twice
\* the display scale, gives the same raster rectangle.
C20_RasterRectangle ==
  /\ exportScale = Norm(300, 72)
  /\ \A d \in RasterDraws :
       LET e == exports[d[1]]
           s == e.scale
           r == e.draws[d[2]].img.pos
           out == e.draws[d[2]].rect
       IN IsPositive(s) =>
            /\ \A f \in {"x", "y", "width", "height"} :
                 IsScaledBy(out[f], r[f], exportScale, s)
            /\ ToRasterSpace(Twice(r), Mul(Num(2), s), exportScale) = out

\* C20 witness: a placement resized to {10, 20, 300, 300} drawn by a PNG
\* export of the landscape page in the enlarged window (scale 1000/792):
\* the raster rectangle is {33, 66, 990, 990}.
C20_Witness ==
  \E d \in RasterDraws :
    LET e == exports[d[1]]
    IN /\ e.format = "png"
       /\ e.page = 2
       /\ e.scale = Norm(1000, 792)
       /\ e.draws[d[2]].img.pos.width = 300
       /\ e.draws[d[2]].rect =
            [x |-> Num(33), y |-> Num(66), width |-> Num(990), height |-> Num(990)]

\* ------------------------------------------------------------------------
\* The selected file and the loaded document
\* ------------------------------------------------------------------------
\* C21: while export is enabled, a document handle that is set is that of
\* the selected file, with its page count and a page of it as the active
\* page; and the handle an export took is that of the file it took.
C21_HandleBelongsToSelectedFile ==
  /\ (~ExportDisabled /\ pdfDocProxy # NoFile) =>
       /\ pdfDocProxy = pdfFile
       /\ numPages = PageCount(pdfFile)
       /\ currentPage \in 1..PageCount(pdfFile)
  /\ \A k \in 1..Len(exports) :
       exports[k].doc # NoFile => exports[k].doc = exports[k].file

\* The load of l resolves after its file was replaced or removed.
StaleLoadResolves == \E l \in loads : ~l.isMounted /\ LoadResolved(l)

\* C22: the load of a file that was replaced or removed before it finished
\* commits nothing, in whatever order the loads resolve: only the load of
\* the selected file is mounted, a stale load that resolves leaves the
\* handle, the page count and the active page alone, and the handle and the
\* page count are only ever set to those of the selected file.
C22_StaleLoadNeverCommits ==
  /\ [](\A l \in loads : l.isMounted => l.file = pdfFile)
  /\ [][StaleLoadResolves =>
          UNCHANGED <<pdfDocProxy, numPages, currentPage, renders>>]_vars
  /\ [][pdfDocProxy' # pdfDocProxy =>
          pdfDocProxy' \in {NoFile, pdfFile}]_vars
  /\ [][numPages' # numPages =>
          numPages' = IF pdfDocProxy' = NoFile THEN 0
                      ELSE PageCount(pdfFile)]_vars

\* C22 witness: B.pdf, picked while A.pdf was loading, has been loaded and
\* committed first; the load of A.pdf is still to resolve.
C22_Witness ==
  /\ pdfFile = "B.pdf"
  /\ pdfDocProxy = "B.pdf"
  /\ numPages = 1
  /\ loads = {[file |-> "A.pdf", isMounted |-> FALSE]}

\* ------------------------------------------------------------------------
\* Placement identifiers
\* ------------------------------------------------------------------------
\* The placements with identifier id
WithId(id) == {i \in 1..Len(overlayImages) : overlayImages[i].id = id}

\* C23: the identifiers of the placements are pairwise distinct, so that
\* removeImage(id) and updateImagePos(id, ...) act on exactly one placement.
C23_IdsPairwiseDistinct ==
  \A id \in ShownIds : Cardinality(WithId(id)) = 1

====
